---- MODULE Spec2Model ----
(***************************************************************************)
(* Model of the /compress/basic endpoint of src/api.py (compress_basic):   *)
(* the raster recompression routine with its temp files, its failure       *)
(* handler and its cleanup task.  The PDF library (fitz) and the JPEG      *)
(* codec are the environment: a call the code guards, or that can raise    *)
(* into the handler's except clause, either succeeds or raises.            *)
(***************************************************************************)
EXTENDS Integers, Sequences, FiniteSets, TLC

\* ------------------------------------------------------------------ bounds
MaxPages == 2       \* pages of an uploaded document
MaxEntries == 3     \* image list entries of an uploaded document, all pages
MaxRuns == 2        \* invocations in a row (the output uploaded again)
MaxDim == 100       \* pixel width/height of the image in ScaleInit

\* The qualities tried by the document-level specification (Query ge=10, le=100).
Qualities == {10, 80}

\* ------------------------------------------------- binary floating point
\* A Python float literal of the scale table: cent is the decimal literal in
\* hundredths (its exact rational value), and m * 2^-e is the IEEE-754 double
\* the literal denotes, the 53-bit mantissa m split as
\* m[1] * 2^36 + m[2] * 2^18 + m[3].
Float(cent, m2, m1, m0, e) == [cent |-> cent, m |-> <<m2, m1, m0>>, e |-> e]

Pow2(k) == 2^k

Limb == Pow2(18)    \* the base the mantissa is split in

RECURSIVE BitLen(_)
BitLen(x) == IF x = 0 THEN 0 ELSE 1 + BitLen(x \div 2)

\* int(w * f) for an int w >= 0 (exact as a double, w < 2^13) and a double f:
\* the exact product w * m, rounded to 53 significant bits (round half to
\* even, the double multiplication), then truncated to an integer by int().
IntMul(w, f) ==
    LET t0 == w * f.m[3]
        p0 == t0 % Limb
        t1 == w * f.m[2] + (t0 \div Limb)
        p1 == t1 % Limb
        p2 == w * f.m[1] + (t1 \div Limb)
        \* the product has 36 + BitLen(p2) bits: those beyond 53 are dropped
        d  == BitLen(p2 \div Pow2(17))
        pd == Pow2(d)
        low  == p0 % pd
        half == pd \div 2
        odd  == ((p0 \div pd) % 2) = 1
        up   == d > 0 /\ (low > half \/ (low = half /\ odd))
        r0 == p0 - low + (IF up THEN pd ELSE 0)
        r1 == p1 + (r0 \div Limb)
        r2 == p2 + (r1 \div Limb)
    IN  IF w = 0 THEN 0 ELSE r2 \div Pow2(f.e - 36)

\* ----------------------------------------------------- quality -> scale
scale_map ==
    [k \in {10, 20, 30, 40, 50, 60, 70, 80, 90, 100} |->
        CASE k = 100 -> Float(100, 65536, 0, 0, 52)
          [] k = 90  -> Float(90, 117964, 209715, 52429, 53)
          [] k = 80  -> Float(80, 104857, 157286, 104858, 53)
          [] k = 70  -> Float(70, 91750, 104857, 157286, 53)
          [] k = 60  -> Float(65, 85196, 209715, 52429, 53)
          [] k = 50  -> Float(60, 78643, 52428, 209715, 53)
          [] k = 40  -> Float(55, 72089, 157286, 104858, 53)
          [] k = 30  -> Float(50, 65536, 0, 0, 53)
          [] k = 20  -> Float(45, 117964, 209715, 52429, 54)
          [] k = 10  -> Float(40, 104857, 157286, 104858, 54)]

\* sorted(scale_map.keys())
scale_keys == <<10, 20, 30, 40, 50, 60, 70, 80, 90, 100>>

Abs(x) == IF x < 0 THEN -x ELSE x

\* The comparison of Python's min(): a later element replaces the running
\* minimum only when its key is strictly smaller.
\* variant: the later of two equally near anchors wins
ReplacesOnTie(a, b) == a <= b

Replaces(a, b) == a < b

\* min(keys, key=lambda x: abs(x-quality)): one left-to-right pass.
RECURSIVE MinByKey(_, _, _, _)
MinByKey(keys, q, i, best) ==
    IF i > Len(keys) THEN best
    ELSE MinByKey(keys, q, i + 1,
                  IF Replaces(Abs(keys[i] - q), Abs(best - q)) THEN keys[i] ELSE best)

ResolveScale(q) == scale_map[MinByKey(scale_keys, q, 2, scale_keys[1])]

NoScale == Float(0, 0, 0, 0, 0)

\* ------------------------------------------------------------ documents
MinBytes == 30000   \* len(img_bytes) < 30000: continue

\* An image stream.  src names the uploaded picture it derives from and gen
\* the number of times it was re-encoded (src and gen stand for the bytes);
\* len is the length of the bytes extract_image returns; width, height, n and
\* alpha are those of its Pixmap; jl lists the byte lengths the JPEG codec
\* yields for the successive re-encodings of the picture.
Img(src, len, w, h, n, alpha, jl) ==
    [src |-> src, gen |-> 0, len |-> len, width |-> w, height |-> h,
     n |-> n, alpha |-> alpha, jl |-> jl]

\* The image objects of an uploaded file: a large four-component picture
\* whose first JPEG is still above the threshold, one just below the
\* threshold, and a two-pixel-wide one of exactly the threshold length.
Pictures ==
    << Img(1, 50000, 1000, 1000, 4, 0, <<40000, 20000>>),
       Img(2, 29999, 1000, 1000, 3, 0, <<20000>>),
       Img(3, 30000, 2, 1000, 1, 0, <<20000>>) >>

NoDoc == [imgs |-> <<>>, pages |-> <<>>]

IsInjective(s) == \A i, j \in DOMAIN s : s[i] = s[j] => i = j

PageLists(nimg) ==
    { s \in UNION { [1..k -> 1..nimg] : k \in 0..nimg } :
        IsInjective(s) /\ Len(s) <= MaxEntries }

RECURSIVE Entries(_, _)
Entries(ps, k) == IF k = 0 THEN 0 ELSE Len(ps[k].list) + Entries(ps, k - 1)

NewPage(l) == [list |-> l, placed |-> <<>>]

Uploads ==
    { [imgs |-> Pictures, pages |-> ps] :
        ps \in { qs \in UNION { [1..k -> { NewPage(l) : l \in PageLists(Len(Pictures)) }] :
                                  k \in 1..MaxPages } :
                  Entries(qs, Len(qs)) <= MaxEntries } }

VARIABLES
    quality,        \* the quality query parameter
    upload,         \* the document in the uploaded file
    in_path,        \* the temp copy of the upload: "none", "file", "scheduled", "removed"
    out_path,       \* the output temp file, likewise
    saved_doc,      \* what doc.save wrote to out_path (NoDoc before)
    doc,            \* the open fitz document
    InsertedImages, \* doc.InsertedImages: xrefs of the streams inserted so far
    scale,          \* the resolved scale
    pno,            \* page loop index (1-based)
    imglist,        \* page.get_images(full=True) taken at the head of the page
    idx,            \* image loop index in imglist
    pc,             \* position of the handler
    responses,      \* what the caller of this invocation was sent
    log,            \* history: the image steps of this invocation
    via,            \* how the step just taken placed its JPEG: "try", "except", "none"
    run,            \* number of the invocation
    sizes           \* history: image count and bytes of each saved output

vars == << quality, upload, in_path, out_path, saved_doc, doc, InsertedImages,
           scale, pno, imglist, idx, pc, responses, log, via, run, sizes >>

Fresh(q, up) ==
    /\ quality = q
    /\ upload = up
    /\ in_path = "none"
    /\ out_path = "none"
    /\ saved_doc = NoDoc
    /\ doc = NoDoc
    /\ InsertedImages = {}
    /\ scale = NoScale
    /\ pno = 1
    /\ imglist = <<>>
    /\ idx = 1
    /\ pc = "idle"
    /\ responses = <<>>
    /\ log = <<>>
    /\ via = "none"
    /\ run = 1
    /\ sizes = <<>>

Init == \E q \in Qualities, up \in Uploads : Fresh(q, up)

\* One page holding one image of the threshold length, every size up to
\* MaxDim and every quality the endpoint accepts.
ScaleUploads ==
    { [imgs |-> << Img(1, MinBytes, w, MaxDim + 1 - w, 3, 0, <<20000>>) >>,
       pages |-> << NewPage(<<1>>) >>] : w \in 1..MaxDim }

ScaleInit == \E q \in 10..100, up \in ScaleUploads : Fresh(q, up)

\* ------------------------------------------------------ library, codec
\* fitz.Pixmap(doc, xref)
Pixmap(d, xref) == d.imgs[xref]

\* if pix.n >= 4: pix = fitz.Pixmap(pix, 0)   (a copy without the alpha plane)
Flatten(pix) ==
    IF pix.n >= 4 THEN [pix EXCEPT !.n = @ - pix.alpha, !.alpha = 0] ELSE pix

NewW(pix, sc) == IntMul(pix.width, sc)

NewH(pix, sc) == IntMul(pix.height, sc)

JpegLen(pix) ==
    IF pix.gen + 1 <= Len(pix.jl) THEN pix.jl[pix.gen + 1] ELSE pix.jl[Len(pix.jl)]

\* pix.resize(new_w, new_h).tobytes("jpeg", quality=quality)
Transcode(pix, sc) ==
    [Flatten(pix) EXCEPT !.gen = @ + 1, !.len = JpegLen(pix),
                !.width = NewW(pix, sc), !.height = NewH(pix, sc)]

\* The xref insert_image stores the stream under: the one of an equal stream
\* inserted before into this document, else a new object.
StreamXref(d, ins, stream) ==
    IF \E y \in ins : d.imgs[y] = stream
    THEN CHOOSE y \in ins : d.imgs[y] = stream
    ELSE Len(d.imgs) + 1

\* page.rect of page p
PageRect(p) == p

\* variant: the image is drawn beneath what the page shows so far
InsertImageUnder(d, ins, p, rect, stream) ==
    LET x == StreamXref(d, ins, stream)
    IN  [imgs  |-> IF x > Len(d.imgs) THEN Append(d.imgs, stream) ELSE d.imgs,
         pages |-> [d.pages EXCEPT ![p] =
                       [list   |-> Append(@.list, x),
                        placed |-> << [xref |-> x, rect |-> rect] >> \o @.placed]]]

\* page.insert_image(rect, stream=jpg_bytes) on page p: a new entry of the
\* page's image list, drawn over what the page shows so far
InsertImage(d, ins, p, rect, stream) ==
    LET x == StreamXref(d, ins, stream)
    IN  [imgs  |-> IF x > Len(d.imgs) THEN Append(d.imgs, stream) ELSE d.imgs,
         pages |-> [d.pages EXCEPT ![p] =
                       [list   |-> Append(@.list, x),
                        placed |-> Append(@.placed, [xref |-> x, rect |-> rect])]]]

\* for r in page.get_images(full=True): if r[0] == xref: insert; break
Matched(rescan, xref) == \E i \in DOMAIN rescan : rescan[i] = xref

\* variant: the list of the first page is scanned, whatever the page
RescanFirstPage(d, p) == d.pages[1].list

Rescan(d, p) == d.pages[p].list

TryPlace(d, ins, p, xref, stream) ==
    IF Matched(Rescan(d, p), xref)
    THEN InsertImage(d, ins, p, PageRect(p), stream)
    ELSE d

\* except Exception: page.insert_image(page.rect, stream=jpg_bytes)
FallbackPlace(d, ins, p, stream) == InsertImage(d, ins, p, PageRect(p), stream)

\* doc.save(out_path, garbage=4, deflate=True): objects no page refers to
\* are dropped, equal streams are merged, the rest renumbered.
Used(d) ==
    UNION { { d.pages[p].list[i] : i \in DOMAIN d.pages[p].list } : p \in DOMAIN d.pages }

Rep(d, x) ==
    CHOOSE y \in Used(d) :
        /\ d.imgs[y] = d.imgs[x]
        /\ \A z \in Used(d) : d.imgs[z] = d.imgs[x] => y <= z

Reps(d) == { Rep(d, x) : x \in Used(d) }

Renum(d, x) == Cardinality({ r \in Reps(d) : r <= Rep(d, x) })

Collect(d) ==
    [imgs  |-> [k \in 1..Cardinality(Reps(d)) |->
                   d.imgs[CHOOSE r \in Reps(d) : Renum(d, r) = k]],
     pages |-> [p \in DOMAIN d.pages |->
                   [list   |-> [i \in DOMAIN d.pages[p].list |->
                                   Renum(d, d.pages[p].list[i])],
                    placed |-> [i \in DOMAIN d.pages[p].placed |->
                                   [xref |-> Renum(d, d.pages[p].placed[i].xref),
                                    rect |-> d.pages[p].placed[i].rect]]]]]

RECURSIVE SumLen(_, _)
SumLen(imgs, k) == IF k = 0 THEN 0 ELSE imgs[k].len + SumLen(imgs, k - 1)

\* number and total byte length of the image streams the pages refer to
ImageCount(d) == Cardinality(Reps(d))

ImageBytes(d) == SumLen(Collect(d).imgs, Cardinality(Reps(d)))

\* ------------------------------------------------------------- handler
Cur == imglist[idx]                 \* xref = img[0]

Base == doc.imgs[Cur]               \* doc.extract_image(xref)

\* variant: an image of exactly the threshold length is skipped too
EligibleAbove(img) == img.len > MinBytes

Eligible(img) == ~(img.len < MinBytes)

\* variant: a dimension of 0 is let through
TooSmallNegative(w, h) == w < 0 \/ h < 0

TooSmall(w, h) == w < 1 \/ h < 1    \* if new_w < 1 or new_h < 1: continue

Entry(step, calls, w, h, err) ==
    [pno |-> pno, idx |-> idx, xref |-> Cur, step |-> step, calls |-> calls,
     new_w |-> w, new_h |-> h, err |-> err]

Response(status, detail, body) == [status |-> status, detail |-> detail, body |-> body]

\* variant: the file is left where it is
Keep(p) == p

\* os.remove(p), or cleanup_files on p
Remove(p) == "removed"

\* except Exception as e: remove out_path, raise HTTPException(500, str(e))
Handler(e) ==
    /\ out_path' = Remove(out_path)
    /\ in_path' = in_path
    /\ responses' = Append(responses, Response(500, e, NoDoc))
    /\ pc' = "failed"

\* the for loops move on: the next image of the page, else the next page
Advance ==
    /\ imglist' = imglist
    /\ IF idx < Len(imglist)
       THEN idx' = idx + 1 /\ pno' = pno /\ pc' = "image"
       ELSE idx' = 1 /\ pno' = pno + 1 /\ pc' = "page"

\* in_path = save_upload_tmp(file); out_fd, out_path = tempfile.mkstemp(...)
Upload ==
    /\ via' = "none"
    /\ pc = "idle"
    /\ in_path' = "file"
    /\ out_path' = "file"
    /\ pc' = "open"
    /\ UNCHANGED << quality, upload, saved_doc, doc, InsertedImages, scale, pno,
                    imglist, idx, responses, log, run, sizes >>

\* doc = fitz.open(in_path); scale = scale_map[min(...)]
Open ==
    /\ via' = "none"
    /\ pc = "open"
    /\ doc' = upload
    /\ InsertedImages' = {}
    /\ scale' = ResolveScale(quality)
    /\ pno' = 1
    /\ pc' = "page"
    /\ UNCHANGED << quality, upload, in_path, out_path, saved_doc, imglist, idx,
                    responses, log, run, sizes >>

OpenFails ==
    /\ via' = "none"
    /\ pc = "open"
    /\ Handler("open")
    /\ UNCHANGED << quality, upload, saved_doc, doc, InsertedImages, scale, pno,
                    imglist, idx, log, run, sizes >>

\* for pno in range(len(doc)): imglist = page.get_images(full=True);
\* if not imglist: continue
NextPage ==
    /\ via' = "none"
    /\ pc = "page"
    /\ IF pno > Len(doc.pages)
       THEN pc' = "save" /\ UNCHANGED << pno, imglist, idx >>
       ELSE /\ imglist' = doc.pages[pno].list
            /\ idx' = 1
            /\ IF doc.pages[pno].list = <<>>
               THEN pno' = pno + 1 /\ pc' = "page"
               ELSE pno' = pno /\ pc' = "image"
    /\ UNCHANGED << quality, upload, in_path, out_path, saved_doc, doc,
                    InsertedImages, scale, responses, log, run, sizes >>

Raise(step_calls, e) ==
    /\ via' = "none"
    /\ Handler(e)
    /\ log' = Append(log, Entry("raised", step_calls, -1, -1, e))
    /\ UNCHANGED << quality, upload, saved_doc, doc, InsertedImages, scale, pno,
                    imglist, idx, run, sizes >>

Skip(step, step_calls, w, h) ==
    /\ via' = "none"
    /\ Advance
    /\ log' = Append(log, Entry(step, step_calls, w, h, ""))
    /\ UNCHANGED << quality, upload, in_path, out_path, saved_doc, doc,
                    InsertedImages, scale, responses, run, sizes >>

ExtractFails ==
    /\ pc = "image"
    /\ Raise({"extract_image"}, "extract_image")

\* if len(img_bytes) < 30000: continue
SkipSmall ==
    /\ pc = "image"
    /\ ~Eligible(Base)
    /\ Skip("small", {"extract_image"}, -1, -1)

DecodeFails ==
    /\ pc = "image"
    /\ Eligible(Base)
    /\ Raise({"extract_image", "Pixmap"}, "Pixmap")

Pix == Flatten(Pixmap(doc, Cur))

new_w == NewW(Pix, scale)           \* int(pix.width * scale)

new_h == NewH(Pix, scale)           \* int(pix.height * scale)

SkipDims ==
    /\ pc = "image"
    /\ Eligible(Base)
    /\ TooSmall(new_w, new_h)
    /\ Skip("dims", {"extract_image", "Pixmap"}, new_w, new_h)

\* pix.resize raises: AttributeError becomes the HTTPException of line 182,
\* anything else reaches the handler as it is
ResizeFails ==
    /\ pc = "image"
    /\ Eligible(Base)
    /\ ~TooSmall(new_w, new_h)
    /\ \E e \in {"incompatible", "resize"} :
          Raise({"extract_image", "Pixmap", "resize"}, e)

EncodeFails ==
    /\ pc = "image"
    /\ Eligible(Base)
    /\ ~TooSmall(new_w, new_h)
    /\ Raise({"extract_image", "Pixmap", "resize", "tobytes"}, "tobytes")

AllCalls == {"extract_image", "Pixmap", "resize", "tobytes", "insert_image"}

jpg_bytes == Transcode(Pixmap(doc, Cur), scale)

Placed(step, how, d) ==
    /\ via' = how
    /\ doc' = d
    /\ InsertedImages' =
          IF d = doc THEN InsertedImages
          ELSE InsertedImages \cup {d.pages[pno].list[Len(d.pages[pno].list)]}
    /\ Advance
    /\ log' = Append(log, Entry(step, AllCalls, new_w, new_h, ""))
    /\ UNCHANGED << quality, upload, in_path, out_path, saved_doc, scale,
                    responses, run, sizes >>

\* the try block of lines 184-189 runs through
Place ==
    /\ pc = "image"
    /\ Eligible(Base)
    /\ ~TooSmall(new_w, new_h)
    /\ Placed(IF Matched(Rescan(doc, pno), Cur) THEN "placed" ELSE "nomatch", "try",
              TryPlace(doc, InsertedImages, pno, Cur, jpg_bytes))

\* the try block raises, the except clause of lines 190-191 inserts
PlaceFallback ==
    /\ pc = "image"
    /\ Eligible(Base)
    /\ ~TooSmall(new_w, new_h)
    /\ Placed("placed", "except", FallbackPlace(doc, InsertedImages, pno, jpg_bytes))

\* the try block raises and so does the insert_image of the except clause
PlaceFails ==
    /\ pc = "image"
    /\ Eligible(Base)
    /\ ~TooSmall(new_w, new_h)
    /\ Raise(AllCalls, "insert_image")

\* doc.save(out_path, garbage=4, deflate=True); doc.close()
\* (doc keeps the closed document's last state for the properties to read)
Save ==
    /\ via' = "none"
    /\ pc = "save"
    /\ saved_doc' = Collect(doc)
    /\ sizes' = Append(sizes, [count |-> ImageCount(doc), bytes |-> ImageBytes(doc)])
    /\ pc' = "respond"
    /\ UNCHANGED << quality, upload, in_path, out_path, doc, InsertedImages, scale,
                    pno, imglist, idx, responses, log, run >>

SaveFails ==
    /\ via' = "none"
    /\ pc = "save"
    /\ Handler("save")
    /\ UNCHANGED << quality, upload, saved_doc, doc, InsertedImages, scale, pno,
                    imglist, idx, log, run, sizes >>

\* background_tasks.add_task(cleanup_files, [in_path, out_path])
Schedule(p) == "scheduled"

\* response = FileResponse(out_path, ...); add_task(...); return response
Respond ==
    /\ via' = "none"
    /\ pc = "respond"
    /\ responses' = Append(responses, Response(200, "", saved_doc))
    /\ in_path' = Schedule(in_path)
    /\ out_path' = Schedule(out_path)
    /\ pc' = "sent"
    /\ UNCHANGED << quality, upload, saved_doc, doc, InsertedImages, scale, pno,
                    imglist, idx, log, run, sizes >>

\* the background task, run once the response is sent
cleanup_files ==
    /\ via' = "none"
    /\ pc = "sent"
    /\ in_path' = (IF in_path = "scheduled" THEN Remove(in_path) ELSE in_path)
    /\ out_path' = (IF out_path = "scheduled" THEN Remove(out_path) ELSE out_path)
    /\ pc' = "done"
    /\ UNCHANGED << quality, upload, saved_doc, doc, InsertedImages, scale, pno,
                    imglist, idx, responses, log, run, sizes >>

\* the caller posts the file it was sent to the endpoint again, same quality
Resubmit ==
    /\ via' = "none"
    /\ pc = "done"
    /\ run < MaxRuns
    /\ upload' = responses[Len(responses)].body
    /\ run' = run + 1
    /\ in_path' = "none"
    /\ out_path' = "none"
    /\ saved_doc' = NoDoc
    /\ doc' = NoDoc
    /\ InsertedImages' = {}
    /\ scale' = NoScale
    /\ pno' = 1
    /\ imglist' = <<>>
    /\ idx' = 1
    /\ pc' = "idle"
    /\ responses' = <<>>
    /\ log' = <<>>
    /\ UNCHANGED << quality, sizes >>

Next ==
    \/ Upload \/ Open \/ OpenFails \/ NextPage
    \/ ExtractFails \/ SkipSmall \/ DecodeFails \/ SkipDims
    \/ ResizeFails \/ EncodeFails
    \/ Place \/ PlaceFallback \/ PlaceFails
    \/ Save \/ SaveFails \/ Respond \/ cleanup_files \/ Resubmit

Spec == Init /\ [][Next]_vars

ScaleSpec == ScaleInit /\ [][Next]_vars

\* ================================================================ claims
Last(s) == s[Len(s)]

Anchors == {10, 20, 30, 40, 50, 60, 70, 80, 90, 100}

Stepped == Len(log') = Len(log) + 1

Transcoded(e) == e.step = "placed"

Finished == pc \in {"respond", "sent", "done"}

\* C1: for every quality in 10..100 the scale in use is the table value of
\* the anchor nearest to the quality by absolute difference, the smaller
\* anchor on a tie (95 resolves to anchor 90, 80 to anchor 80).
C1_NearestAnchor ==
    scale # NoScale =>
        /\ \E a \in Anchors :
              /\ \A b \in Anchors :
                    \/ Abs(a - quality) < Abs(b - quality)
                    \/ (Abs(a - quality) = Abs(b - quality) /\ a <= b)
              /\ scale = scale_map[a]
        /\ (quality = 95 => scale.cent = 90)
        /\ (quality = 80 => scale.cent = 80)

\* a tie (95 lies between the anchors 90 and 100) was resolved and used
C1_Witness ==
    /\ quality = 95
    /\ scale = scale_map[90]
    /\ log # <<>> /\ Last(log).step = "placed"

\* C2: an image whose extracted bytes are shorter than 30,000 is only
\* extracted: no Pixmap, resize, tobytes or insert_image for that entry, the
\* document is left as it was, and the stream is the same in the saved
\* output; an image of exactly 30,000 bytes passes the filter (it is decoded).
C2_SmallState ==
    /\ doc # NoDoc => \A x \in DOMAIN upload.imgs : doc.imgs[x] = upload.imgs[x]
    /\ Finished =>
          \A p \in DOMAIN upload.pages : \A i \in DOMAIN upload.pages[p].list :
              upload.imgs[upload.pages[p].list[i]].len < 30000 =>
                  saved_doc.imgs[saved_doc.pages[p].list[i]]
                      = upload.imgs[upload.pages[p].list[i]]

C2_SmallStep ==
    (pc = "image" /\ Stepped) =>
        /\ doc.imgs[imglist[idx]].len < 30000 =>
              /\ Last(log').calls = {"extract_image"}
              /\ doc' = doc
              /\ Last(log').step \in {"small", "raised"}
        /\ (doc.imgs[imglist[idx]].len >= 30000 /\ Last(log').err # "extract_image") =>
              "Pixmap" \in Last(log').calls

\* C2: both parts, in every state and at every step
C2_SmallUntouched == [](C2_SmallState) /\ [][C2_SmallStep]_vars

\* a small image was skipped on a page on which another image was transcoded,
\* and the document was saved
C2_Witness ==
    /\ pc = "done"
    /\ \E i, j \in DOMAIN log :
          /\ log[i].step = "small" /\ Transcoded(log[j])
          /\ log[i].pno = log[j].pno

\* C3: the dimensions handed to resize are floor(width * scale) and
\* floor(height * scale), scale being the exact decimal of the table, and
\* neither exceeds the original dimension.
C3_ExactFloor ==
    \A i \in DOMAIN log :
        log[i].new_w # -1 =>
            LET img == doc.imgs[log[i].xref]
            IN  /\ log[i].new_w = (img.width * scale.cent) \div 100
                /\ log[i].new_h = (img.height * scale.cent) \div 100
                /\ log[i].new_w <= img.width
                /\ log[i].new_h <= img.height

\* C4: when the new width or height of an eligible image comes out below 1
\* the image is skipped: nothing is resized, encoded or inserted, the
\* document is unchanged, no error is sent, and the loop moves on to the next
\* image or page; the stream is the same in the saved output.
C4_SkipStep ==
    (pc = "image" /\ Stepped /\ (Last(log').new_w < 1 \/ Last(log').new_h < 1)
       /\ Last(log').new_w # -1) =>
        /\ Last(log').step = "dims"
        /\ Last(log').calls = {"extract_image", "Pixmap"}
        /\ doc' = doc
        /\ responses' = responses
        /\ pc' \in {"image", "page"}
        /\ \/ (idx < Len(imglist) /\ idx' = idx + 1 /\ pno' = pno /\ pc' = "image")
           \/ (idx = Len(imglist) /\ pno' = pno + 1 /\ pc' = "page")

C4_SkipState ==
    Finished =>
        \A i \in DOMAIN log :
            log[i].step = "dims" =>
                saved_doc.imgs[saved_doc.pages[log[i].pno].list[log[i].idx]]
                    = upload.imgs[log[i].xref]

\* C4: both parts, in every state and at every step
C4_TinySkipped == [](C4_SkipState) /\ [][C4_SkipStep]_vars

\* an image was skipped for its size, a later image was still transcoded,
\* and the invocation ended with the file response
C4_Witness ==
    /\ pc = "done"
    /\ responses = << Response(200, "", saved_doc) >>
    /\ \E i, j \in DOMAIN log :
          /\ i < j
          /\ log[i].step = "dims" /\ log[i].new_w = 0
          /\ Transcoded(log[j])

\* C5: when resize or the JPEG encoding of an eligible image raises, on any
\* page, the invocation fails: doc.save has not run, the output temp file is
\* removed, and the caller is sent one response, a 500 carrying the error.
C5_EncodeFailureFatal ==
    \A i \in DOMAIN log :
        (log[i].step = "raised" /\ log[i].err \in {"incompatible", "resize", "tobytes"}) =>
            /\ pc = "failed"
            /\ saved_doc = NoDoc
            /\ Len(sizes) = run - 1
            /\ out_path = "removed"
            /\ responses = << Response(500, log[i].err, NoDoc) >>

\* the encoding failed on the second page after the first was rewritten
C5_Witness ==
    /\ pc = "failed"
    /\ log # <<>> /\ Last(log).err = "tobytes" /\ Last(log).pno = 2
    /\ doc.pages[1].placed # <<>>
    /\ out_path = "removed"

\* C6 as stated: every occurrence for which new JPEG bytes were produced
\* ends with those bytes placed over the full rectangle of its page.
C6_AlwaysPlaced ==
    [][(pc = "image" /\ Stepped /\ "insert_image" \in Last(log').calls) =>
          /\ Len(doc'.pages[pno].placed) = Len(doc.pages[pno].placed) + 1
          /\ doc'.imgs[Last(doc'.pages[pno].placed).xref] = Transcode(doc.imgs[imglist[idx]], scale)
          /\ Last(doc'.pages[pno].placed).rect = PageRect(pno)]_vars

\* C6 as amended: the re-scan of the page always finds the id of the image
\* being processed; when new JPEG bytes were produced they are placed over
\* the full page rectangle, by the scan or, when the scan-and-place attempt
\* raises, by the fallback; when the fallback raises too the invocation
\* fails with a 500 and nothing is placed.
C6_RescanFinds ==
    pc = "image" => \E i \in DOMAIN doc.pages[pno].list : doc.pages[pno].list[i] = imglist[idx]

C6_PlaceStep ==
    (pc = "image" /\ Stepped /\ "insert_image" \in Last(log').calls) =>
        \/ /\ Last(log').step = "placed"
           /\ via' \in {"try", "except"}
           /\ pc' # "failed"
           /\ responses' = responses
           /\ Len(doc'.pages[pno].placed) = Len(doc.pages[pno].placed) + 1
           /\ doc'.imgs[Last(doc'.pages[pno].placed).xref]
                 = Transcode(doc.imgs[imglist[idx]], scale)
           /\ Last(doc'.pages[pno].placed).rect = PageRect(pno)
        \/ /\ Last(log').step = "raised" /\ Last(log').err = "insert_image"
           /\ pc' = "failed"
           /\ doc' = doc
           /\ responses' = << Response(500, "insert_image", NoDoc) >>

\* C6 as amended: both parts, in every state and at every step
C6_PlacedOrFatal == [](C6_RescanFinds) /\ [][C6_PlaceStep]_vars

\* the fallback placed the JPEG of the image just processed
C6_Witness ==
    /\ via = "except"
    /\ log # <<>> /\ Last(log).step = "placed"
    /\ doc.pages[Last(log).pno].placed # <<>>
    /\ doc.imgs[Last(doc.pages[Last(log).pno].placed).xref]
          = Transcode(doc.imgs[Last(log).xref], scale)

\* C7: once the loops are through, no page refers any more to the original
\* stream of a transcoded image, and the saved output does not hold it.
C7_OriginalDropped ==
    \A i \in DOMAIN log :
        Transcoded(log[i]) =>
            /\ pc = "save" =>
                  \A p \in DOMAIN doc.pages : \A k \in DOMAIN doc.pages[p].list :
                      doc.pages[p].list[k] # log[i].xref
            /\ Finished =>
                  \A x \in DOMAIN saved_doc.imgs : saved_doc.imgs[x] # upload.imgs[log[i].xref]

\* C8: a run on the output of an earlier run at the same quality saves a
\* document with no more image streams and no more image bytes than the
\* earlier output.
C8_NoGrowth ==
    \A k \in DOMAIN sizes :
        k > 1 => /\ sizes[k].count <= sizes[k - 1].count
                 /\ sizes[k].bytes <= sizes[k - 1].bytes

\* C9: the image steps run by ascending page and, within a page, by list
\* position; every placement is over the rectangle of its own page; the
\* placements a run adds to a page are, bottom to top, the JPEGs of the
\* images it transcoded there in list order, so that on a page that is done
\* the topmost placement is the JPEG of the last transcodable image of the
\* page's list.
OnPage(p) == LET T(e) == e.pno = p /\ Transcoded(e) IN SelectSeq(log, T)

Transcodable(img, sc) ==
    /\ img.len >= 30000
    /\ NewW(img, sc) >= 1
    /\ NewH(img, sc) >= 1

C9_StackOrder ==
    /\ \A j \in DOMAIN log :
          j > 1 => \/ log[j - 1].pno < log[j].pno
                   \/ (log[j - 1].pno = log[j].pno /\ log[j - 1].idx < log[j].idx)
    /\ \A i \in DOMAIN log : log[i].xref = upload.pages[log[i].pno].list[log[i].idx]
    /\ doc # NoDoc =>
          \A p \in DOMAIN doc.pages :
              LET old == Len(upload.pages[p].placed)
                  new == doc.pages[p].placed
                  list == upload.pages[p].list
                  done == OnPage(p)
              IN  /\ \A k \in DOMAIN new : new[k].rect = PageRect(p)
                  /\ Len(new) = old + Len(done)
                  /\ \A k \in DOMAIN done :
                        doc.imgs[new[old + k].xref] = Transcode(doc.imgs[done[k].xref], scale)
                  /\ (pc \in {"page", "image", "save"} /\ pno > p) =>
                        LET able == { i \in DOMAIN list :
                                        Transcodable(upload.imgs[list[i]], scale) }
                        IN  \A i \in able :
                                (\A k \in able : k <= i) =>
                                    /\ new # <<>>
                                    /\ doc.imgs[Last(new).xref]
                                          = Transcode(upload.imgs[list[i]], scale)

\* two images of the first page were transcoded in the first run; the JPEG
\* of the second lies on top
C9_Witness ==
    /\ run = 1 /\ pc = "save"
    /\ Len(doc.pages[1].placed) = 2
    /\ Len(OnPage(1)) = 2
    /\ doc.imgs[doc.pages[1].placed[2].xref]
          = Transcode(upload.imgs[upload.pages[1].list[2]], scale)
    /\ doc.pages[1].placed[1].xref # doc.pages[1].placed[2].xref

\* C10: when an invocation has ended, with the file response or with an
\* error, both temp files it created are removed or scheduled for removal.
C10_NoTempFileLeft ==
    pc \in {"failed", "sent", "done"} =>
        /\ in_path \in {"removed", "scheduled"}
        /\ out_path \in {"removed", "scheduled"}

====
